---- MODULE Spec2Model ----
(***************************************************************************)
(* The in-memory user store of the user-service (UserService) and its five *)
(* operations GetUser, CreateUser, UpdateUser, DeleteUser and ListUsers,   *)
(* executed one request at a time (Spec), and two requests served by two   *)
(* goroutines whose steps interleave (SpecRace, SpecLocked).               *)
(*                                                                         *)
(* Time is counted in ticks; TicksPerSecond ticks make one second, the     *)
(* resolution of time.RFC3339.  The clock (time.Now) is read as a          *)
(* non-decreasing sequence of ticks, 0 being the first possible reading    *)
(* of the process.                                                         *)
(***************************************************************************)
EXTENDS Integers, Sequences, FiniteSets, TLC

VARIABLES
    users,      \* UserService.users : map[string]*User, as a function on its keys
    now,        \* the latest reading of time.Now()
    running,    \* FALSE once a handler has panicked (the process is gone)
    call,       \* the last request served: [op, ...request fields]
    resp,       \* the response returned to that request
    prev,       \* the value of users right before that request
    deleted,    \* TRUE once some DeleteUser has removed a record
    steps,      \* the number of requests served
    procs,      \* the goroutines serving a request each: their locals and position
    heap,       \* which User object each key points to, and the objects no key points to
    mutex       \* the holder of the lock around the operations, where there is one

vars == <<users, now, running, call, resp, prev, deleted, steps, procs, heap, mutex>>

\* the variables of the goroutines, which a run of one request at a time leaves alone
conc == <<procs, heap, mutex>>

----------------------------------------------------------------------------
(* Bounds of the model *)

MaxSteps == 2       \* requests served in one run

TicksPerSecond == 2

Hour == 3600 * TicksPerSecond

MaxInt32 == 2147483647
MinInt32 == -2147483647 - 1

(* Request values *)
ReqIds    == {"1", "2", "3", "999"}
ReqNames  == {"", "New"}
ReqEmails == {"", "a@x.com"}
ReqAges   == {-1, 0, 20}
\* the CreateUser requests: no field is validated
CreateReqs ==
    {[Name |-> "A", Email |-> "a@x.com", Age |-> 20],
     [Name |-> "",  Email |-> "",        Age |-> 0],
     [Name |-> "B", Email |-> "",        Age |-> -1]}
ReqPages  == {0, 1, 2, 3, 65537}
ReqLimits == {-1, 1, 2, 65536}

\* the four readings of time.Now() in the constructor
SeedReadings == {<<0, 0, 0, 0>>, <<0, 1, 1, 1>>, <<0, 0, 0, 1>>}

\* a reading of the clock after the reading t: no time, or one tick, has passed
Readings(t) == {t, t + 1}

----------------------------------------------------------------------------
(* Messages *)

MsgNotFound  == "User not found"
MsgRetrieved == "User retrieved successfully"
MsgCreated   == "User created successfully"
MsgUpdated   == "User updated successfully"
MsgDeleted   == "User deleted successfully"
MsgNoPage    == "No users found for the given page"
MsgListed    == "Users retrieved successfully"

NoUser == [nil |-> TRUE]     \* a nil *proto.User
Nil    == "nil"              \* the nil error

----------------------------------------------------------------------------
(* fmt.Sprintf("%d", n) for n >= 0 *)

Digit(d) ==
    CASE d = 0 -> "0" [] d = 1 -> "1" [] d = 2 -> "2" [] d = 3 -> "3"
      [] d = 4 -> "4" [] d = 5 -> "5" [] d = 6 -> "6" [] d = 7 -> "7"
      [] d = 8 -> "8" [] d = 9 -> "9"

RECURSIVE Sprintf_d(_)
Sprintf_d(n) ==
    IF n < 10 THEN Digit(n) ELSE Sprintf_d(n \div 10) \o Digit(n % 10)

(* time.Time.Format(time.RFC3339): the instant cut to whole seconds *)
FormatRFC3339(t) == t \div TicksPerSecond

----------------------------------------------------------------------------
(* int32 arithmetic.  A 32-bit pattern is kept as two 16-bit halves.       *)

ToHalves(x) ==
    IF x >= 0
    THEN [hi |-> x \div 65536, lo |-> x % 65536]
    ELSE LET y == (x + MaxInt32) + 1
         IN  [hi |-> (y \div 65536) + 32768, lo |-> y % 65536]

FromHalves(h) ==
    IF h.hi < 32768
    THEN h.hi * 65536 + h.lo
    ELSE (h.hi - 65536) * 65536 + h.lo

\* the 32-bit product of two 16-bit values
Mul16(x, y) ==
    LET p0 == (x % 256) * y
        p1 == (x \div 256) * y
        s  == p0 + (p1 % 256) * 256
    IN  [hi |-> (s \div 65536) + (p1 \div 256), lo |-> s % 65536]

\* a * b on int32, wrapping
Int32Mul(a, b) ==
    LET A  == ToHalves(a)
        B  == ToHalves(b)
        ll == Mul16(A.lo, B.lo)
        hl == Mul16(A.hi, B.lo)
        lh == Mul16(A.lo, B.hi)
    IN  FromHalves([hi |-> (ll.hi + hl.lo + lh.lo) % 65536, lo |-> ll.lo])

\* a - 1 on int32, wrapping
Int32Dec(a) == IF a = MinInt32 THEN MaxInt32 ELSE a - 1

----------------------------------------------------------------------------
(* The map *)

Size(m)      == Cardinality(DOMAIN m)    \* len(s.users)
Put(m, k, v) == [x \in (DOMAIN m) \cup {k} |-> IF x = k THEN v ELSE m[x]]
Remove(m, k) == [x \in (DOMAIN m) \ {k} |-> m[x]]

User(id, name, email, age, createdAt, updatedAt) ==
    [ID |-> id, Name |-> name, Email |-> email, Age |-> age,
     CreatedAt |-> createdAt, UpdatedAt |-> updatedAt]

convertToProtoUser(user) ==
    [Id |-> user.ID, Name |-> user.Name, Email |-> user.Email, Age |-> user.Age,
     CreatedAt |-> FormatRFC3339(user.CreatedAt),
     UpdatedAt |-> FormatRFC3339(user.UpdatedAt)]

\* the constructor with the updatedAt of the second record copied from the first
initializeSampleData_CopiedOffset(t1, t2, t3, t4) ==
    LET john == User("1", "John Doe", "john.doe@example.com", 30,
                     t1 - 24 * Hour, t2 - 24 * Hour)
        jane == User("2", "Jane Smith", "jane.smith@example.com", 25,
                     t3 - 12 * Hour, t4 - 24 * Hour)
    IN  Put(Put(<<>>, john.ID, john), jane.ID, jane)

\* the store after the constructor, whose four clock readings are t1..t4
initializeSampleData(t1, t2, t3, t4) ==
    LET john == User("1", "John Doe", "john.doe@example.com", 30,
                     t1 - 24 * Hour, t2 - 24 * Hour)
        jane == User("2", "Jane Smith", "jane.smith@example.com", 25,
                     t3 - 12 * Hour, t4 - 12 * Hour)
    IN  Put(Put(<<>>, john.ID, john), jane.ID, jane)

----------------------------------------------------------------------------
(* The operations, as functions of the store and the request.  Each yields *)
(* the store it leaves and its response; err is the returned error.        *)

\* GetUser with the outcome of a missing id reported as a success
GetUser_MissIsSuccess(us, id) ==
    IF id \notin DOMAIN us
    THEN [User |-> NoUser, Success |-> TRUE, Message |-> MsgRetrieved, err |-> Nil]
    ELSE [User |-> convertToProtoUser(us[id]), Success |-> TRUE,
          Message |-> MsgRetrieved, err |-> Nil]

\* GetUser that returns an error for a missing id
GetUser_ErrOnMissing(us, id) ==
    IF id \notin DOMAIN us
    THEN [User |-> NoUser, Success |-> FALSE, Message |-> MsgNotFound,
          err |-> "user not found"]
    ELSE [User |-> convertToProtoUser(us[id]), Success |-> TRUE,
          Message |-> MsgRetrieved, err |-> Nil]

GetUser(us, id) ==
    IF id \notin DOMAIN us
    THEN [User |-> NoUser, Success |-> FALSE, Message |-> MsgNotFound, err |-> Nil]
    ELSE [User |-> convertToProtoUser(us[id]), Success |-> TRUE,
          Message |-> MsgRetrieved, err |-> Nil]

\* CreateUser that never stores the record
CreateUser_NoInsert(us, name, email, age, t1, t2) ==
    LET userID == Sprintf_d(Size(us) + 1)
        user   == User(userID, name, email, age, t1, t2)
    IN  [users |-> us,
         resp  |-> [User |-> convertToProtoUser(user), Success |-> TRUE,
                    Message |-> MsgCreated, err |-> Nil]]

\* CreateUser that takes the record count itself as the id
CreateUser_IdFromLen(us, name, email, age, t1, t2) ==
    LET userID == Sprintf_d(Size(us))
        user   == User(userID, name, email, age, t1, t2)
    IN  [users |-> Put(us, userID, user),
         resp  |-> [User |-> convertToProtoUser(user), Success |-> TRUE,
                    Message |-> MsgCreated, err |-> Nil]]

\* CreateUser that stores the record under the record count, not under its id
CreateUser_KeyFromLen(us, name, email, age, t1, t2) ==
    LET userID == Sprintf_d(Size(us) + 1)
        user   == User(userID, name, email, age, t1, t2)
    IN  [users |-> Put(us, Sprintf_d(Size(us)), user),
         resp  |-> [User |-> convertToProtoUser(user), Success |-> TRUE,
                    Message |-> MsgCreated, err |-> Nil]]

\* CreateUser that leaves a record already stored under the id in place
CreateUser_KeepExisting(us, name, email, age, t1, t2) ==
    LET userID == Sprintf_d(Size(us) + 1)
        user   == User(userID, name, email, age, t1, t2)
    IN  [users |-> IF userID \in DOMAIN us THEN us ELSE Put(us, userID, user),
         resp  |-> [User |-> convertToProtoUser(user), Success |-> TRUE,
                    Message |-> MsgCreated, err |-> Nil]]

\* t1, t2: the two readings of time.Now()
CreateUser(us, name, email, age, t1, t2) ==
    LET userID == Sprintf_d(Size(us) + 1)
        user   == User(userID, name, email, age, t1, t2)
    IN  [users |-> Put(us, userID, user),
         resp  |-> [User |-> convertToProtoUser(user), Success |-> TRUE,
                    Message |-> MsgCreated, err |-> Nil]]

\* UpdateUser that takes an age of zero as supplied (age >= 0)
UpdateUser_AgeZero(us, id, name, email, age, t) ==
    IF id \notin DOMAIN us
    THEN [users |-> us,
          resp  |-> [User |-> NoUser, Success |-> FALSE,
                     Message |-> MsgNotFound, err |-> Nil]]
    ELSE LET u0   == us[id]
             u1   == IF name # "" THEN [u0 EXCEPT !.Name = name] ELSE u0
             u2   == IF email # "" THEN [u1 EXCEPT !.Email = email] ELSE u1
             u3   == IF age >= 0 THEN [u2 EXCEPT !.Age = age] ELSE u2
             user == [u3 EXCEPT !.UpdatedAt = t]
         IN  [users |-> [us EXCEPT ![id] = user],
              resp  |-> [User |-> convertToProtoUser(user), Success |-> TRUE,
                         Message |-> MsgUpdated, err |-> Nil]]

\* UpdateUser that stores the request under a missing id
UpdateUser_Upsert(us, id, name, email, age, t) ==
    LET u0   == IF id \in DOMAIN us THEN us[id] ELSE User(id, "", "", 0, t, t)
        u1   == IF name # "" THEN [u0 EXCEPT !.Name = name] ELSE u0
        u2   == IF email # "" THEN [u1 EXCEPT !.Email = email] ELSE u1
        u3   == IF age > 0 THEN [u2 EXCEPT !.Age = age] ELSE u2
        user == [u3 EXCEPT !.UpdatedAt = t]
    IN  [users |-> Put(us, id, user),
         resp  |-> IF id \in DOMAIN us
                   THEN [User |-> convertToProtoUser(user), Success |-> TRUE,
                         Message |-> MsgUpdated, err |-> Nil]
                   ELSE [User |-> NoUser, Success |-> FALSE,
                         Message |-> MsgNotFound, err |-> Nil]]

\* UpdateUser that stamps updatedAt only when a field was supplied
UpdateUser_StampIfChanged(us, id, name, email, age, t) ==
    IF id \notin DOMAIN us
    THEN [users |-> us,
          resp  |-> [User |-> NoUser, Success |-> FALSE,
                     Message |-> MsgNotFound, err |-> Nil]]
    ELSE LET u0   == us[id]
             u1   == IF name # "" THEN [u0 EXCEPT !.Name = name] ELSE u0
             u2   == IF email # "" THEN [u1 EXCEPT !.Email = email] ELSE u1
             u3   == IF age > 0 THEN [u2 EXCEPT !.Age = age] ELSE u2
             user == IF name # "" \/ email # "" \/ age > 0
                     THEN [u3 EXCEPT !.UpdatedAt = t] ELSE u3
         IN  [users |-> [us EXCEPT ![id] = user],
              resp  |-> [User |-> convertToProtoUser(user), Success |-> TRUE,
                         Message |-> MsgUpdated, err |-> Nil]]

\* UpdateUser that writes every field of the request, supplied or not
UpdateUser_Overwrite(us, id, name, email, age, t) ==
    IF id \notin DOMAIN us
    THEN [users |-> us,
          resp  |-> [User |-> NoUser, Success |-> FALSE,
                     Message |-> MsgNotFound, err |-> Nil]]
    ELSE LET user == [us[id] EXCEPT !.Name = name, !.Email = email, !.Age = age,
                                    !.UpdatedAt = t]
         IN  [users |-> [us EXCEPT ![id] = user],
              resp  |-> [User |-> convertToProtoUser(user), Success |-> TRUE,
                         Message |-> MsgUpdated, err |-> Nil]]

\* t: the reading of time.Now()
UpdateUser(us, id, name, email, age, t) ==
    IF id \notin DOMAIN us
    THEN [users |-> us,
          resp  |-> [User |-> NoUser, Success |-> FALSE,
                     Message |-> MsgNotFound, err |-> Nil]]
    ELSE LET u0   == us[id]
             u1   == IF name # "" THEN [u0 EXCEPT !.Name = name] ELSE u0
             u2   == IF email # "" THEN [u1 EXCEPT !.Email = email] ELSE u1
             u3   == IF age > 0 THEN [u2 EXCEPT !.Age = age] ELSE u2
             user == [u3 EXCEPT !.UpdatedAt = t]
         IN  [users |-> [us EXCEPT ![id] = user],
              resp  |-> [User |-> convertToProtoUser(user), Success |-> TRUE,
                         Message |-> MsgUpdated, err |-> Nil]]

\* DeleteUser that reports the removal without doing it
DeleteUser_KeepsRecord(us, id) ==
    IF id \notin DOMAIN us
    THEN [users |-> us,
          resp  |-> [Success |-> FALSE, Message |-> MsgNotFound, err |-> Nil]]
    ELSE [users |-> us,
          resp  |-> [Success |-> TRUE, Message |-> MsgDeleted, err |-> Nil]]

\* DeleteUser that returns an error for a missing id
DeleteUser_ErrOnMissing(us, id) ==
    IF id \notin DOMAIN us
    THEN [users |-> us,
          resp  |-> [Success |-> FALSE, Message |-> MsgNotFound,
                     err |-> "user not found"]]
    ELSE [users |-> Remove(us, id),
          resp  |-> [Success |-> TRUE, Message |-> MsgDeleted, err |-> Nil]]

DeleteUser(us, id) ==
    IF id \notin DOMAIN us
    THEN [users |-> us,
          resp  |-> [Success |-> FALSE, Message |-> MsgNotFound, err |-> Nil]]
    ELSE [users |-> Remove(us, id),
          resp  |-> [Success |-> TRUE, Message |-> MsgDeleted, err |-> Nil]]

\* the start offset with pages counted from 0
ListStart_PageFromZero(page, limit) == Int32Mul(page, limit)

\* start := int((req.Page - 1) * req.Limit): the product is an int32
ListStart(page, limit) == Int32Mul(Int32Dec(page), limit)

\* end := start + int(req.Limit), on int
ListEnd(page, limit) == ListStart(page, limit) + limit

\* ListUsers that reports the number of users of the page as the total
ListUsers_TotalOfPage(allUsers, page, limit) ==
    LET total == Len(allUsers)
        start == ListStart(page, limit)
    IN  IF start >= total
        THEN [panic |-> FALSE, Users |-> <<>>, Total |-> 0, Success |-> TRUE,
              Message |-> MsgNoPage, err |-> Nil]
        ELSE LET end0 == ListEnd(page, limit)
                 end  == IF end0 > total THEN total ELSE end0
             IN  IF start < 0 \/ end < start
                 THEN [panic |-> TRUE]
                 ELSE [panic |-> FALSE,
                       Users |-> [i \in 1..(end - start) |->
                                     convertToProtoUser(allUsers[start + i])],
                       Total |-> end - start, Success |-> TRUE,
                       Message |-> MsgListed, err |-> Nil]

\* allUsers: the records in the order the map iteration produced them
ListUsers(allUsers, page, limit) ==
    LET total == Len(allUsers)
        start == ListStart(page, limit)
    IN  IF start >= total
        THEN [panic |-> FALSE, Users |-> <<>>, Total |-> total, Success |-> TRUE,
              Message |-> MsgNoPage, err |-> Nil]
        ELSE LET end0 == ListEnd(page, limit)
                 end  == IF end0 > total THEN total ELSE end0
             IN  IF start < 0 \/ end < start
                 THEN [panic |-> TRUE]      \* slice bounds out of range
                 ELSE [panic |-> FALSE,
                       Users |-> [i \in 1..(end - start) |->
                                     convertToProtoUser(allUsers[start + i])],
                       Total |-> total, Success |-> TRUE,
                       Message |-> MsgListed, err |-> Nil]

\* the orders in which ranging over the map can produce its records
Iterations(us) ==
    {[i \in 1..Size(us) |-> us[ks[i]]] :
        ks \in {f \in [1..Size(us) -> DOMAIN us] :
                    \A i, j \in 1..Size(us) : f[i] = f[j] => i = j}}

----------------------------------------------------------------------------
(* UserHandler: every entry point logs the request and hands it to the     *)
(* operation of the same name of UserService.                              *)

UserHandler_GetUser(us, id) == GetUser(us, id)

UserHandler_CreateUser(us, name, email, age, t1, t2) ==
    CreateUser(us, name, email, age, t1, t2)

\* the handler of UpdateUser turning down a request without a name
UserHandler_UpdateUser_Validating(us, id, name, email, age, t) ==
    IF name = ""
    THEN [users |-> us,
          resp  |-> [User |-> NoUser, Success |-> FALSE,
                     Message |-> MsgNotFound, err |-> Nil]]
    ELSE UpdateUser(us, id, name, email, age, t)

UserHandler_UpdateUser(us, id, name, email, age, t) ==
    UpdateUser(us, id, name, email, age, t)

UserHandler_DeleteUser(us, id) == DeleteUser(us, id)

UserHandler_ListUsers(allUsers, page, limit) == ListUsers(allUsers, page, limit)

----------------------------------------------------------------------------
(* The goroutines.  The gRPC server serves every request in a goroutine of *)
(* its own; each holds the request, its position in the operation and the  *)
(* locals of the operation.                                                *)

Procs == {"p1", "p2"}

Free == "free"      \* the lock is not held

\* a goroutine before its request has arrived
Idle ==
    [pc |-> "idle", req |-> [op |-> "none"], userID |-> "", user |-> NoUser,
     ptr |-> "", ptrs |-> <<>>, t |-> 0, stale |-> FALSE, resp |-> [err |-> Nil],
     snap |-> <<>>, after |-> <<>>]

\* the requests the goroutines serve
ConcReqs ==
    {[op |-> "CreateUser", Name |-> "A", Email |-> "a@x.com", Age |-> 20],
     [op |-> "CreateUser", Name |-> "B", Email |-> "", Age |-> -1],
     [op |-> "UpdateUser", Id |-> "1", Name |-> "New", Email |-> "", Age |-> 0],
     [op |-> "UpdateUser", Id |-> "1", Name |-> "", Email |-> "a@x.com", Age |-> 20],
     [op |-> "UpdateUser", Id |-> "3", Name |-> "New", Email |-> "", Age |-> 0],
     [op |-> "DeleteUser", Id |-> "1"],
     [op |-> "DeleteUser", Id |-> "3"],
     [op |-> "GetUser", Id |-> "1"],
     [op |-> "GetUser", Id |-> "3"],
     [op |-> "ListUsers", Page |-> 1, Limit |-> 2],
     [op |-> "ListUsers", Page |-> 2, Limit |-> 1],
     [op |-> "ListUsers", Page |-> 0, Limit |-> 1]}

----------------------------------------------------------------------------
(* The state machine: NewUserService, then one request after another.      *)

Init ==
    /\ \E t \in SeedReadings :
          /\ users = initializeSampleData(t[1], t[2], t[3], t[4])
          /\ now = t[4]
    /\ running = TRUE
    /\ call = [op |-> "NewUserService"]
    /\ resp = [err |-> Nil]
    /\ prev = <<>>
    /\ deleted = FALSE
    /\ steps = 0
    /\ procs = [p \in Procs |-> Idle]
    /\ heap = [tags |-> [k \in DOMAIN users |-> "seed" \o k], orphans |-> <<>>]
    /\ mutex = Free

DoGetUser ==
    /\ running
    /\ steps < MaxSteps
    /\ steps' = steps + 1
    /\ \E id \in ReqIds :
          /\ call' = [op |-> "GetUser", Id |-> id]
          /\ resp' = UserHandler_GetUser(users, id)
    /\ prev' = users
    /\ UNCHANGED <<users, now, running, deleted, conc>>

DoCreateUser ==
    /\ running
    /\ steps < MaxSteps
    /\ steps' = steps + 1
    /\ \E req \in CreateReqs :
       \E t1 \in Readings(now) : \E t2 \in Readings(t1) :
          /\ t2 <= now + 1
          /\ LET r == UserHandler_CreateUser(users, req.Name, req.Email, req.Age, t1, t2)
             IN  /\ users' = r.users
                 /\ resp' = r.resp
          /\ call' = [op |-> "CreateUser", Name |-> req.Name, Email |-> req.Email,
                      Age |-> req.Age]
          /\ now' = t2
    /\ prev' = users
    /\ UNCHANGED <<running, deleted, conc>>

DoUpdateUser ==
    /\ running
    /\ steps < MaxSteps
    /\ steps' = steps + 1
    /\ \E id \in ReqIds, name \in ReqNames, email \in ReqEmails, age \in ReqAges :
          /\ call' = [op |-> "UpdateUser", Id |-> id, Name |-> name,
                      Email |-> email, Age |-> age]
          /\ IF id \in DOMAIN users
             THEN \E t \in Readings(now) :
                     LET r == UserHandler_UpdateUser(users, id, name, email, age, t)
                     IN  /\ users' = r.users
                         /\ resp' = r.resp
                         /\ now' = t
             ELSE LET r == UserHandler_UpdateUser(users, id, name, email, age, now)
                  IN  /\ users' = r.users
                      /\ resp' = r.resp
                      /\ now' = now
    /\ prev' = users
    /\ UNCHANGED <<running, deleted, conc>>

DoDeleteUser ==
    /\ running
    /\ steps < MaxSteps
    /\ steps' = steps + 1
    /\ \E id \in ReqIds :
          LET r == UserHandler_DeleteUser(users, id)
          IN  /\ call' = [op |-> "DeleteUser", Id |-> id]
              /\ users' = r.users
              /\ resp' = r.resp
              /\ deleted' = (deleted \/ r.resp.Success)
    /\ prev' = users
    /\ UNCHANGED <<now, running, conc>>

DoListUsers ==
    /\ running
    /\ steps < MaxSteps
    /\ steps' = steps + 1
    /\ \E page \in ReqPages, limit \in ReqLimits :
       \E allUsers \in Iterations(users) :
          LET r == UserHandler_ListUsers(allUsers, page, limit)
          IN  /\ call' = [op |-> "ListUsers", Page |-> page, Limit |-> limit]
              /\ resp' = r
              /\ running' = ~r.panic
    /\ prev' = users
    /\ UNCHANGED <<users, now, deleted, conc>>

Next ==
    \/ DoGetUser
    \/ DoCreateUser
    \/ DoUpdateUser
    \/ DoDeleteUser
    \/ DoListUsers

Spec == Init /\ [][Next]_vars

----------------------------------------------------------------------------
(* The operations step by step, as a goroutine executes them.  A step is   *)
(* one access to what the goroutines share: the map, a User object reached *)
(* through a pointer, the clock.  Between two steps of a goroutine the     *)
(* other one may run.                                                      *)

hist == <<call, resp, prev, deleted, steps>>

\* the User object o is the value of some key
Attached(o) == \E k \in DOMAIN users : heap.tags[k] = o
KeyOf(o)    == CHOOSE k \in DOMAIN users : heap.tags[k] = o

\* *o, the object a pointer leads to, in the map or not
Deref(o) == IF Attached(o) THEN users[KeyOf(o)] ELSE heap.orphans[o]

\* the write that is dropped when no key leads to the object
WriteField_IfAttached(o, f, v) ==
    IF Attached(o)
    THEN /\ users' = [users EXCEPT ![KeyOf(o)][f] = v]
         /\ heap' = heap
    ELSE UNCHANGED <<users, heap>>

\* o.f = v, through the pointer
WriteField(o, f, v) ==
    IF Attached(o)
    THEN /\ users' = [users EXCEPT ![KeyOf(o)][f] = v]
         /\ heap' = heap
    ELSE /\ heap' = [heap EXCEPT !.orphans[o][f] = v]
         /\ users' = users

\* the assignment that keeps the object a key already points to
MapAssign_IfAbsent(k, o, u) ==
    IF k \in DOMAIN users
    THEN /\ users' = users
         /\ heap' = [heap EXCEPT !.orphans = Put(heap.orphans, o, u)]
    ELSE /\ users' = Put(users, k, u)
         /\ heap' = [heap EXCEPT !.tags = Put(heap.tags, k, o)]

\* s.users[k] = the object o with the fields u: the object k pointed to is let go
MapAssign(k, o, u) ==
    /\ users' = Put(users, k, u)
    /\ heap' = [tags    |-> Put(heap.tags, k, o),
                orphans |-> IF k \in DOMAIN users
                            THEN Put(heap.orphans, heap.tags[k], users[k])
                            ELSE heap.orphans]

\* delete(s.users, k)
MapDelete(k) ==
    /\ users' = Remove(users, k)
    /\ heap' = [tags    |-> Remove(heap.tags, k),
                orphans |-> IF k \in DOMAIN users
                            THEN Put(heap.orphans, heap.tags[k], users[k])
                            ELSE heap.orphans]

\* the first position of the operation a request asks for
Entry(req) ==
    CASE req.op = "GetUser"    -> "g_lookup"
      [] req.op = "CreateUser" -> "c_new"
      [] req.op = "UpdateUser" -> "u_lookup"
      [] req.op = "DeleteUser" -> "d_lookup"
      [] req.op = "ListUsers"  -> "l_range"

\* the lock after the goroutine p has returned (a deferred Unlock)
Release(p) == IF mutex = p THEN Free ELSE mutex

\* the goroutine p returns the response r
Return(p, r) ==
    /\ procs' = [procs EXCEPT ![p] = [@ EXCEPT !.pc = "done", !.resp = r,
                                                !.after = users']]
    /\ mutex' = Release(p)

\* the goroutine p moves on to the position pc
Goto(p, pc) ==
    /\ procs' = [procs EXCEPT ![p].pc = pc]
    /\ mutex' = mutex

\* a request arrives and is given to the goroutine p
Dispatch(p) ==
    /\ running
    /\ procs[p].pc = "idle"
    /\ \E req \in ConcReqs :
          procs' = [procs EXCEPT ![p] = [@ EXCEPT !.pc = Entry(req), !.req = req,
                                                  !.snap = users]]
    /\ UNCHANGED <<users, now, running, heap, hist>>

\* the operations take no lock
BeginRace(p) ==
    /\ Dispatch(p)
    /\ mutex' = mutex

\* every operation starts by taking the lock
BeginLocked(p) ==
    /\ mutex = Free
    /\ Dispatch(p)
    /\ mutex' = p

\* the id taken from the record count itself
NextUserID_FromLen(us) == Sprintf_d(Size(us))

\* userID := fmt.Sprintf("%d", len(s.users)+1)
NextUserID(us) == Sprintf_d(Size(us) + 1)

GetUser_Lookup(p) ==
    LET l == procs[p]
    IN  /\ running
        /\ l.pc = "g_lookup"
        /\ UNCHANGED <<users, now, running, heap, hist>>
        /\ IF l.req.Id \notin DOMAIN users
           THEN Return(p, [User |-> NoUser, Success |-> FALSE,
                           Message |-> MsgNotFound, err |-> Nil])
           ELSE /\ procs' = [procs EXCEPT ![p] = [@ EXCEPT !.pc = "g_return",
                                                  !.ptr = heap.tags[l.req.Id]]]
                /\ mutex' = mutex

GetUser_Return(p) ==
    LET l == procs[p]
    IN  /\ running
        /\ l.pc = "g_return"
        /\ UNCHANGED <<users, now, running, heap, hist>>
        /\ Return(p, [User |-> convertToProtoUser(Deref(l.ptr)), Success |-> TRUE,
                      Message |-> MsgRetrieved, err |-> Nil])

CreateUser_New(p) ==
    LET l == procs[p]
    IN  /\ running
        /\ l.pc = "c_new"
        /\ \E t1 \in Readings(now) : \E t2 \in Readings(t1) :
              /\ t2 <= now + 1
              /\ now' = t2
              /\ procs' = [procs EXCEPT ![p] =
                              [@ EXCEPT !.pc = "c_store",
                                        !.userID = NextUserID(users),
                                        !.user = User(NextUserID(users), l.req.Name,
                                                      l.req.Email, l.req.Age, t1, t2)]]
        /\ UNCHANGED <<users, running, heap, mutex, hist>>

CreateUser_Store(p) ==
    LET l == procs[p]
    IN  /\ running
        /\ l.pc = "c_store"
        /\ MapAssign(l.userID, p, l.user)
        /\ Goto(p, "c_return")
        /\ UNCHANGED <<now, running, hist>>

CreateUser_Return(p) ==
    LET l == procs[p]
    IN  /\ running
        /\ l.pc = "c_return"
        /\ UNCHANGED <<users, now, running, heap, hist>>
        /\ Return(p, [User |-> convertToProtoUser(Deref(p)), Success |-> TRUE,
                      Message |-> MsgCreated, err |-> Nil])

UpdateUser_Lookup(p) ==
    LET l == procs[p]
    IN  /\ running
        /\ l.pc = "u_lookup"
        /\ UNCHANGED <<users, now, running, heap, hist>>
        /\ IF l.req.Id \notin DOMAIN users
           THEN Return(p, [User |-> NoUser, Success |-> FALSE,
                           Message |-> MsgNotFound, err |-> Nil])
           ELSE /\ procs' = [procs EXCEPT ![p] = [@ EXCEPT !.pc = "u_name",
                                                  !.ptr = heap.tags[l.req.Id]]]
                /\ mutex' = mutex

UpdateUser_Name(p) ==
    LET l == procs[p]
    IN  /\ running
        /\ l.pc = "u_name"
        /\ IF l.req.Name # ""
           THEN WriteField(l.ptr, "Name", l.req.Name)
           ELSE UNCHANGED <<users, heap>>
        \* stale: no key leads to the object when the writes begin
        /\ procs' = [procs EXCEPT ![p] = [@ EXCEPT !.pc = "u_email",
                                                    !.stale = ~Attached(l.ptr)]]
        /\ mutex' = mutex
        /\ UNCHANGED <<now, running, hist>>

UpdateUser_Email(p) ==
    LET l == procs[p]
    IN  /\ running
        /\ l.pc = "u_email"
        /\ IF l.req.Email # ""
           THEN WriteField(l.ptr, "Email", l.req.Email)
           ELSE UNCHANGED <<users, heap>>
        /\ Goto(p, "u_age")
        /\ UNCHANGED <<now, running, hist>>

UpdateUser_Age(p) ==
    LET l == procs[p]
    IN  /\ running
        /\ l.pc = "u_age"
        /\ IF l.req.Age > 0
           THEN WriteField(l.ptr, "Age", l.req.Age)
           ELSE UNCHANGED <<users, heap>>
        /\ Goto(p, "u_stamp")
        /\ UNCHANGED <<now, running, hist>>

UpdateUser_Stamp(p) ==
    LET l == procs[p]
    IN  /\ running
        /\ l.pc = "u_stamp"
        /\ \E t \in Readings(now) :
              /\ now' = t
              /\ WriteField(l.ptr, "UpdatedAt", t)
              /\ procs' = [procs EXCEPT ![p] = [@ EXCEPT !.pc = "u_return", !.t = t]]
        /\ UNCHANGED <<running, mutex, hist>>

UpdateUser_Return(p) ==
    LET l == procs[p]
    IN  /\ running
        /\ l.pc = "u_return"
        /\ UNCHANGED <<users, now, running, heap, hist>>
        /\ Return(p, [User |-> convertToProtoUser(Deref(l.ptr)), Success |-> TRUE,
                      Message |-> MsgUpdated, err |-> Nil])

DeleteUser_Lookup(p) ==
    LET l == procs[p]
    IN  /\ running
        /\ l.pc = "d_lookup"
        /\ UNCHANGED <<users, now, running, heap, hist>>
        /\ IF l.req.Id \notin DOMAIN users
           THEN Return(p, [Success |-> FALSE, Message |-> MsgNotFound, err |-> Nil])
           ELSE Goto(p, "d_delete")

DeleteUser_Delete(p) ==
    LET l == procs[p]
    IN  /\ running
        /\ l.pc = "d_delete"
        /\ MapDelete(l.req.Id)
        /\ UNCHANGED <<now, running, hist>>
        /\ Return(p, [Success |-> TRUE, Message |-> MsgDeleted, err |-> Nil])

\* the range over the map appends the pointers in some order of the keys
ListUsers_Range(p) ==
    LET l == procs[p]
        n == Size(users)
    IN  /\ running
        /\ l.pc = "l_range"
        /\ \E ks \in {f \in [1..n -> DOMAIN users] :
                         \A i, j \in 1..n : f[i] = f[j] => i = j} :
              procs' = [procs EXCEPT ![p] = [@ EXCEPT !.pc = "l_page",
                                             !.ptrs = [i \in 1..n |-> heap.tags[ks[i]]]]]
        /\ UNCHANGED <<users, now, running, heap, mutex, hist>>

\* the page is cut out and its records are rendered; a panic ends the process
ListUsers_Page(p) ==
    LET l == procs[p]
        allUsers == [i \in 1..Len(l.ptrs) |-> Deref(l.ptrs[i])]
        r == ListUsers(allUsers, l.req.Page, l.req.Limit)
    IN  /\ running
        /\ l.pc = "l_page"
        /\ UNCHANGED <<users, now, heap, hist>>
        /\ IF r.panic
           THEN /\ running' = FALSE
                /\ Goto(p, "panic")
           ELSE /\ running' = running
                /\ Return(p, r)

\* positions at which the next step of a goroutine writes the map, or reads it
MapWrites == {"c_store", "d_delete"}
MapReads  == {"g_lookup", "u_lookup", "d_lookup", "l_range"}

\* two goroutines are in the map at once, one of them writing: the runtime may
\* notice it and end the process (fatal error: concurrent map writes)
FatalMapRace ==
    /\ running
    /\ \E p, q \in Procs :
          /\ p # q
          /\ procs[p].pc \in MapWrites
          /\ procs[q].pc \in MapWrites \cup MapReads
    /\ running' = FALSE
    /\ UNCHANGED <<users, now, procs, heap, mutex, hist>>

Step(p) ==
    \/ GetUser_Lookup(p)
    \/ GetUser_Return(p)
    \/ CreateUser_New(p)
    \/ CreateUser_Store(p)
    \/ CreateUser_Return(p)
    \/ UpdateUser_Lookup(p)
    \/ UpdateUser_Name(p)
    \/ UpdateUser_Email(p)
    \/ UpdateUser_Age(p)
    \/ UpdateUser_Stamp(p)
    \/ UpdateUser_Return(p)
    \/ DeleteUser_Lookup(p)
    \/ DeleteUser_Delete(p)
    \/ ListUsers_Range(p)
    \/ ListUsers_Page(p)

\* the service as it is: no lock
NextRace ==
    \/ \E p \in Procs : BeginRace(p) \/ Step(p)
    \/ FatalMapRace

SpecRace == Init /\ [][NextRace]_vars

\* the service with a lock around each operation
NextLocked == \E p \in Procs : BeginLocked(p) \/ Step(p)

SpecLocked == Init /\ [][NextLocked]_vars

----------------------------------------------------------------------------
(* Properties of GetUser and CreateUser *)

Served(op) == call.op = op

\* the response payload that renders the stored record u
Renders(p, u) ==
    /\ p.Id = u.ID /\ p.Name = u.Name /\ p.Email = u.Email /\ p.Age = u.Age
    /\ p.CreatedAt = FormatRFC3339(u.CreatedAt)
    /\ p.UpdatedAt = FormatRFC3339(u.UpdatedAt)

\* C1: GetUser returns success, "User retrieved successfully" and the stored
\* record of the id when the id is a key of the store; it returns failure,
\* "User not found" and no record when it is not; the store is unchanged.
GetUserContract ==
    Served("GetUser") =>
        /\ users = prev
        /\ IF call.Id \in DOMAIN prev
           THEN /\ resp.Success = TRUE
                /\ resp.Message = "User retrieved successfully"
                /\ resp.User # NoUser
                /\ resp.User.Id = call.Id
                /\ Renders(resp.User, prev[call.Id])
           ELSE /\ resp.Success = FALSE
                /\ resp.Message = "User not found"
                /\ resp.User = NoUser

\* a GetUser has found a record that a CreateUser stored
GetUserFound ==
    /\ Served("GetUser") /\ call.Id = "3"
    /\ call.Id \in DOMAIN prev /\ resp.Success

\* C2: with n records in the store, CreateUser returns success and a record
\* whose id is the decimal string of n+1 and whose name, email and age are the
\* supplied values, and the store then maps that id to that record.
CreateUserContract ==
    Served("CreateUser") =>
        LET id == Sprintf_d(Size(prev) + 1)
        IN  /\ resp.Success = TRUE
            /\ resp.User # NoUser
            /\ resp.User.Id = id
            /\ resp.User.Name = call.Name
            /\ resp.User.Email = call.Email
            /\ resp.User.Age = call.Age
            /\ id \in DOMAIN users
            /\ users[id].ID = id
            /\ Renders(resp.User, users[id])

\* a CreateUser has stored a record with an empty name and a zero age
CreateUserUnvalidated ==
    /\ Served("CreateUser") /\ call.Name = "" /\ call.Age = 0
    /\ resp.Success /\ resp.User.Id = "3" /\ users["3"].Name = ""

\* the keys "1", ..., "n"
FirstIds(n) == {Sprintf_d(i) : i \in 1..n}

\* C3: as long as no DeleteUser has succeeded, every CreateUser returns an id
\* that was not a key before and grows the store by one, and the keys of a
\* store of n records are "1", ..., "n".
CreateUserFreshIds ==
    ~deleted =>
        /\ DOMAIN users = FirstIds(Size(users))
        /\ Served("CreateUser") =>
              /\ resp.User.Id \notin DOMAIN prev
              /\ Size(users) = Size(prev) + 1
              /\ Size(prev) = 2 => Size(users) = 3

\* two CreateUser in a row on the seeded store
CreateUserTwice ==
    /\ ~deleted /\ Served("CreateUser")
    /\ Size(prev) = 3 /\ DOMAIN users = {"1", "2", "3", "4"}

----------------------------------------------------------------------------
(* Properties of UpdateUser *)

UpdatedLive == Served("UpdateUser") /\ call.Id \in DOMAIN prev

\* C4: UpdateUser on a live id returns success and the updated record; the
\* stored name (email) becomes the supplied one iff that is non-empty, the
\* stored age becomes the supplied one iff that is strictly positive, a field
\* whose supplied value is empty, zero or negative keeps its value, and every
\* other record is unchanged.
UpdateUserPartial ==
    UpdatedLive =>
        LET id  == call.Id
            old == prev[id]
        IN  /\ resp.Success = TRUE
            /\ DOMAIN users = DOMAIN prev
            /\ users[id].Name = (IF call.Name # "" THEN call.Name ELSE old.Name)
            /\ users[id].Email = (IF call.Email # "" THEN call.Email ELSE old.Email)
            /\ users[id].Age = (IF call.Age > 0 THEN call.Age ELSE old.Age)
            /\ resp.User # NoUser
            /\ Renders(resp.User, users[id])
            /\ \A k \in DOMAIN prev \ {id} : users[k] = prev[k]

\* UpdateUser("1", "New", "", 0) has changed the name alone
UpdateUserNameOnly ==
    /\ UpdatedLive /\ call.Id = "1"
    /\ call.Name = "New" /\ call.Email = "" /\ call.Age = 0
    /\ users["1"].Name = "New" /\ prev["1"].Name = "John Doe"
    /\ users["1"].Email = "john.doe@example.com" /\ users["1"].Age = 30

\* C5: UpdateUser on an id that is no key of the store returns failure,
\* "User not found" and no record, and leaves the store as it was: no key, no
\* field and no timestamp changes, and no record is created.
UpdateUserNotFound ==
    (Served("UpdateUser") /\ call.Id \notin DOMAIN prev) =>
        /\ resp.Success = FALSE
        /\ resp.Message = "User not found"
        /\ resp.User = NoUser
        /\ users = prev
        /\ call.Id \notin DOMAIN users

\* an UpdateUser with fields to set has missed its id
UpdateUserMissed ==
    /\ Served("UpdateUser") /\ call.Id = "999" /\ call.Id \notin DOMAIN prev
    /\ call.Name = "New" /\ call.Age = 20 /\ ~resp.Success

\* C6: every UpdateUser on a live id sets the record's updatedAt to the clock
\* reading, also when no field changes, and this is at least the previous
\* updatedAt; over every operation the updatedAt of a key does not decrease.
UpdatedAtRefreshed ==
    /\ UpdatedLive =>
          /\ users[call.Id].UpdatedAt = now
          /\ users[call.Id].UpdatedAt >= prev[call.Id].UpdatedAt
    /\ \A k \in (DOMAIN prev) \cap (DOMAIN users) :
          users[k].UpdatedAt >= prev[k].UpdatedAt

\* an UpdateUser that sets no field has moved updatedAt of a record that an
\* earlier UpdateUser had stamped
UpdateUserTouched ==
    /\ UpdatedLive
    /\ call.Name = "" /\ call.Email = "" /\ call.Age = 0
    /\ prev[call.Id].UpdatedAt >= 0
    /\ users[call.Id].UpdatedAt > prev[call.Id].UpdatedAt
    /\ [users[call.Id] EXCEPT !.UpdatedAt = 0] = [prev[call.Id] EXCEPT !.UpdatedAt = 0]

----------------------------------------------------------------------------
(* Properties of DeleteUser *)

DeletedLive == Served("DeleteUser") /\ call.Id \in DOMAIN prev

\* C7: DeleteUser on a live id returns success and no record, removes that
\* key alone (the store shrinks by one, every other record is unchanged), and
\* a GetUser of the same id right after it returns failure.
DeleteUserRemoves ==
    /\ [](DeletedLive =>
            /\ resp.Success = TRUE
            /\ "User" \notin DOMAIN resp
            /\ DOMAIN users = (DOMAIN prev) \ {call.Id}
            /\ Size(users) = Size(prev) - 1
            /\ \A k \in DOMAIN users : users[k] = prev[k])
    /\ [][(DeletedLive /\ call'.op = "GetUser" /\ call'.Id = call.Id)
            => resp'.Success = FALSE]_vars

\* Delete("2") has removed the record and another request can follow
DeleteUserRemoved ==
    /\ DeletedLive /\ call.Id = "2" /\ resp.Success
    /\ DOMAIN users = {"1"} /\ steps < MaxSteps

\* C8: DeleteUser on an absent id returns failure and "User not found", raises
\* no error and leaves the store unchanged, and the same call made again
\* returns the identical response.
DeleteUserIdempotent ==
    /\ []((Served("DeleteUser") /\ call.Id \notin DOMAIN prev) =>
            /\ resp.Success = FALSE
            /\ resp.Message = "User not found"
            /\ resp.err = Nil
            /\ running
            /\ users = prev)
    /\ [][(Served("DeleteUser") /\ ~resp.Success /\ call' = call)
            => (resp' = resp /\ users' = users /\ running')]_vars

\* a DeleteUser of an id that an earlier DeleteUser removed
DeleteUserAgain ==
    /\ Served("DeleteUser") /\ call.Id = "2" /\ ~resp.Success
    /\ deleted /\ "2" \notin DOMAIN prev

----------------------------------------------------------------------------
(* Properties of ListUsers *)

\* a * b >= t over the integers, for t >= 0
ProductAtLeast(a, b, t) ==
    IF t = 0
    THEN a = 0 \/ b = 0 \/ (a > 0 /\ b > 0) \/ (a < 0 /\ b < 0)
    ELSE \/ a > 0 /\ b > 0 /\ a >= ((t - 1) \div b) + 1
         \/ a < 0 /\ b < 0 /\ (-a) >= ((t - 1) \div (-b)) + 1

Min(a, b) == IF a < b THEN a ELSE b

\* the response of the empty page
EmptyPage ==
    /\ running
    /\ resp.panic = FALSE
    /\ resp.Users = <<>>
    /\ resp.Success = TRUE
    /\ resp.Total = Size(prev)
    /\ resp.Message = "No users found for the given page"
    /\ users = prev

\* C9: for every page and limit with (page-1)*limit >= total, ListUsers
\* returns no users, success, the number of records as total and "No users
\* found for the given page", and leaves the store unchanged.
ListUsersEmptyPage ==
    (Served("ListUsers") /\ ProductAtLeast(call.Page - 1, call.Limit, Size(prev)))
        => EmptyPage

\* C9, with the start offset as the int32 product the code computes: the
\* empty page is returned whenever that offset is at least the total.
ListUsersEmptyPageInt32 ==
    (Served("ListUsers") /\ ListStart(call.Page, call.Limit) >= Size(prev))
        => EmptyPage

\* C10: for page >= 1 and limit >= 1 with start = (page-1)*limit < total,
\* ListUsers returns success, "Users retrieved successfully", the number of
\* records as total and min(limit, total - start) users, each the rendering of
\* a different record of the store.
ListUsersPage ==
    (/\ Served("ListUsers") /\ call.Page >= 1 /\ call.Limit >= 1
     /\ ~ProductAtLeast(call.Page - 1, call.Limit, Size(prev)))
        => LET total == Size(prev)
               start == (call.Page - 1) * call.Limit
           IN  /\ running
               /\ resp.panic = FALSE
               /\ resp.Success = TRUE
               /\ resp.Message = "Users retrieved successfully"
               /\ resp.Total = total
               /\ Len(resp.Users) = Min(call.Limit, total - start)
               /\ \A i \in 1..Len(resp.Users) :
                     \E k \in DOMAIN prev :
                        resp.Users[i].Id = k /\ Renders(resp.Users[i], prev[k])
               /\ \A i, j \in 1..Len(resp.Users) :
                     resp.Users[i].Id = resp.Users[j].Id => i = j
               /\ users = prev

\* the second page of two, of a store of three records: one user
ListUsersLastPage ==
    /\ Served("ListUsers") /\ call.Page = 2 /\ call.Limit = 2
    /\ Size(prev) = 3 /\ resp.panic = FALSE /\ Len(resp.Users) = 1

----------------------------------------------------------------------------
(* Failures, errors and invariants of the store *)

Panicked == Served("ListUsers") /\ resp.panic

\* C11: no call of the five operations ends in a hard failure: ListUsers
\* returns a response for every page and limit, page = 0, page < 0, limit = 0
\* and limit < 0 included, in every state of the store.
NoHardFailure ==
    /\ running
    /\ Served("ListUsers") => (resp.panic = FALSE /\ resp.Success = TRUE)

\* C12: whenever an operation returns, the error it returns is nil; a missing
\* id of GetUser, UpdateUser and DeleteUser is reported by success = false and
\* "User not found" alone.
ErrorAlwaysNil ==
    (steps > 0 /\ ~Panicked) =>
        /\ resp.err = Nil
        /\ (call.op \in {"GetUser", "UpdateUser", "DeleteUser"}
            /\ call.Id \notin DOMAIN prev)
              => (resp.Success = FALSE /\ resp.Message = "User not found")

\* an UpdateUser has missed its id and returned a nil error
MissWithNilError ==
    /\ Served("UpdateUser") /\ call.Id = "3" /\ call.Id \notin DOMAIN prev
    /\ resp.err = Nil /\ ~resp.Success

\* C13: every key of the store maps to one record, whose id is the key; the
\* id found under a key never changes.
IdIsKey ==
    /\ \A k \in DOMAIN users : users[k].ID = k
    /\ \A k \in (DOMAIN prev) \cap (DOMAIN users) : users[k].ID = prev[k].ID

\* a created record has been updated and still carries its key as id
CreatedThenUpdated ==
    /\ UpdatedLive /\ call.Id = "3" /\ call.Name = "New"
    /\ users["3"].ID = "3" /\ users["3"].Name = "New"

\* C14: under a non-decreasing clock every record of the store has
\* createdAt <= updatedAt.
CreatedBeforeUpdated ==
    \A k \in DOMAIN users : users[k].CreatedAt <= users[k].UpdatedAt

\* a record created by CreateUser has been stamped later by UpdateUser
CreatedThenStamped ==
    /\ UpdatedLive /\ call.Id = "3"
    /\ users["3"].CreatedAt >= 0
    /\ users["3"].UpdatedAt > prev["3"].UpdatedAt

\* C15: a freshly constructed store holds exactly the records "1" (John Doe,
\* john.doe@example.com, 30, created 24 hours before construction) and "2"
\* (Jane Smith, jane.smith@example.com, 25, created 12 hours before), and for
\* both updatedAt equals createdAt.
SeededStore ==
    steps = 0 =>
        /\ DOMAIN users = {"1", "2"}
        /\ users["1"].ID = "1" /\ users["1"].Name = "John Doe"
        /\ users["1"].Email = "john.doe@example.com" /\ users["1"].Age = 30
        /\ users["1"].CreatedAt \in {t - 24 * Hour : t \in 0..now}
        /\ users["2"].ID = "2" /\ users["2"].Name = "Jane Smith"
        /\ users["2"].Email = "jane.smith@example.com" /\ users["2"].Age = 25
        /\ users["2"].CreatedAt \in {t - 12 * Hour : t \in 0..now}
        /\ users["1"].UpdatedAt = users["1"].CreatedAt
        /\ users["2"].UpdatedAt = users["2"].CreatedAt

\* C15 without the equality of the two timestamps: the seeded records and
\* createdAt <= updatedAt hold of every freshly constructed store.
SeededStoreOrdered ==
    steps = 0 =>
        /\ DOMAIN users = {"1", "2"}
        /\ users["1"].Name = "John Doe" /\ users["1"].Age = 30
        /\ users["2"].Name = "Jane Smith" /\ users["2"].Age = 25
        /\ users["1"].CreatedAt <= users["1"].UpdatedAt
        /\ users["2"].CreatedAt <= users["2"].UpdatedAt

\* C16: the record that CreateUser produces has createdAt equal to updatedAt.
CreatedAtIsUpdatedAt ==
    Served("CreateUser") =>
        users[resp.User.Id].CreatedAt = users[resp.User.Id].UpdatedAt

\* C17: a record of the store stays in the store with the same id, name,
\* email, age and createdAt over every operation but a successful DeleteUser
\* of its id, which removes it, and a successful UpdateUser of its id, which
\* changes name, email, age and updatedAt at most; createdAt never changes.
RecordLifecycle ==
    \A k \in DOMAIN prev :
        \/ Served("DeleteUser") /\ call.Id = k /\ resp.Success /\ k \notin DOMAIN users
        \/ /\ k \in DOMAIN users
           /\ users[k].ID = prev[k].ID
           /\ users[k].CreatedAt = prev[k].CreatedAt
           /\ (Served("UpdateUser") /\ call.Id = k /\ resp.Success)
                 \/ users[k] = prev[k]

\* C17 for the operations that keep to it: GetUser, UpdateUser, DeleteUser and
\* ListUsers leave every record they are not aimed at as it was.
RecordLifecycleButCreate ==
    ~Served("CreateUser") => RecordLifecycle

----------------------------------------------------------------------------
(* The handler against the store *)

\* C20: the response of every UserHandler entry point, and the store it
\* leaves, are those of one call of the UserService operation of the same
\* name on the unmodified request; the handler changes nothing and reports no
\* missing record by itself.
HandlerDelegates ==
    /\ Served("GetUser") =>
          (resp = GetUser(prev, call.Id) /\ users = prev)
    /\ Served("CreateUser") =>
          \E t1 \in {now - 1, now} :
             [users |-> users, resp |-> resp]
                = CreateUser(prev, call.Name, call.Email, call.Age, t1, now)
    /\ Served("UpdateUser") =>
          [users |-> users, resp |-> resp]
             = UpdateUser(prev, call.Id, call.Name, call.Email, call.Age, now)
    /\ Served("DeleteUser") =>
          [users |-> users, resp |-> resp] = DeleteUser(prev, call.Id)
    /\ Served("ListUsers") =>
          /\ users = prev
          /\ \E allUsers \in Iterations(prev) :
                resp = ListUsers(allUsers, call.Page, call.Limit)
    /\ (steps > 0 /\ ~Panicked /\ ~resp.Success) =>
          (call.op \in {"GetUser", "UpdateUser", "DeleteUser"}
           /\ call.Id \notin DOMAIN prev)

\* an UpdateUser without a name has gone through the handler to the store
HandlerPassedEmptyName ==
    /\ Served("UpdateUser") /\ call.Name = "" /\ call.Email = "a@x.com"
    /\ resp.Success /\ users[call.Id].Email = "a@x.com"

----------------------------------------------------------------------------
(* Properties of requests served concurrently *)

Returned(p, op) == procs[p].pc = "done" /\ procs[p].req.op = op

\* two CreateUser calls that have returned after computing the same id
SameIdCreated(p, q) ==
    /\ p # q
    /\ Returned(p, "CreateUser")
    /\ Returned(q, "CreateUser")
    /\ procs[p].userID = procs[q].userID

\* C18: when two CreateUser calls run without synchronisation and have both
\* computed the same id from the same record count, both return success=true
\* with that id, and the store has grown by one record only: the id leads to
\* the record of one of the two calls and no key leads to the other one.
RaceLosesCreate ==
    \A p, q \in Procs :
       SameIdCreated(p, q) =>
          LET id == procs[p].userID
          IN  /\ id = Sprintf_d(Size(procs[p].snap) + 1)
              /\ procs[p].resp.Success /\ procs[p].resp.User.Id = id
              /\ procs[q].resp.Success /\ procs[q].resp.User.Id = id
              /\ Size(users) = Size(procs[p].snap) + 1
              /\ id \in DOMAIN users
              /\ heap.tags[id] \in {p, q}
              /\ \E lost \in {p, q} : ~Attached(lost) /\ lost \in DOMAIN heap.orphans

\* both calls have returned the same id and the process is still up
RaceLostCreate ==
    /\ running
    /\ \E p, q \in Procs :
          /\ SameIdCreated(p, q)
          /\ procs[p].resp.Success
          /\ procs[q].resp.Success
          /\ procs[p].resp.User.Id = procs[q].resp.User.Id
          /\ Size(users) = Size(procs[p].snap) + 1

\* the response of p and the store it left are those of the operation run in
\* one piece on the store p found when it took the lock
AsInOnePiece(p) ==
    LET l   == procs[p]
        req == l.req
        out == [users |-> l.after, resp |-> l.resp]
    IN  CASE req.op = "GetUser" ->
                l.after = l.snap /\ l.resp = GetUser(l.snap, req.Id)
          [] req.op = "CreateUser" ->
                out = CreateUser(l.snap, req.Name, req.Email, req.Age,
                                 l.user.CreatedAt, l.user.UpdatedAt)
          [] req.op = "UpdateUser" ->
                out = UpdateUser(l.snap, req.Id, req.Name, req.Email, req.Age, l.t)
          [] req.op = "DeleteUser" ->
                out = DeleteUser(l.snap, req.Id)
          [] req.op = "ListUsers" ->
                /\ l.after = l.snap
                /\ \E allUsers \in Iterations(l.snap) :
                      l.resp = ListUsers(allUsers, req.Page, req.Limit)

SeededStores ==
    {initializeSampleData(t[1], t[2], t[3], t[4]) : t \in SeedReadings}

\* C19: with a lock around each operation, a concurrent execution is a
\* sequential one: every returned call has the response, and left the store,
\* of its operation run in one piece; the calls follow one another (the first
\* starts from the constructor's store, the second from the store the first
\* left, and the store is the one the last left); two CreateUser calls return
\* distinct ids and both records are in the store.
LockedIsSequential ==
    /\ \A p \in Procs : procs[p].pc = "done" => AsInOnePiece(p)
    /\ \A p \in Procs :
          procs[p].pc \notin {"idle", "done"} =>
             /\ mutex = p
             /\ \A q \in Procs \ {p} :
                   /\ procs[q].pc \in {"idle", "done"}
                   /\ procs[q].pc = "done" => procs[p].snap = procs[q].after
    /\ (\A p \in Procs : procs[p].pc = "done") =>
          \E p, q \in Procs :
             /\ p # q
             /\ procs[p].snap \in SeededStores
             /\ procs[q].snap = procs[p].after
             /\ users = procs[q].after
    /\ \A p, q \in Procs :
          (p # q /\ Returned(p, "CreateUser") /\ Returned(q, "CreateUser")) =>
             /\ procs[p].resp.User.Id # procs[q].resp.User.Id
             /\ procs[p].resp.User.Id \in DOMAIN users
             /\ procs[q].resp.User.Id \in DOMAIN users
             /\ Renders(procs[p].resp.User, users[procs[p].resp.User.Id])
             /\ Renders(procs[q].resp.User, users[procs[q].resp.User.Id])

\* two CreateUser calls have returned under the lock
LockedCreatedTwice ==
    \E p, q \in Procs :
       /\ p # q
       /\ Returned(p, "CreateUser")
       /\ Returned(q, "CreateUser")
       /\ mutex = Free

----------------------------------------------------------------------------
(* Id reuse, the offsets of ListUsers, the sentinels of UpdateUser *)

\* the id CreateUser takes is a key of the store it finds
IdCollides == Served("CreateUser") /\ Sprintf_d(Size(prev) + 1) \in DOMAIN prev

\* C21: in a sequential run, when the decimal string of (record count + 1)
\* is already a key of the store, CreateUser returns success with that id,
\* the record under that key is replaced by the new one, every other record
\* is kept and the store does not grow.
CreateUserReusesId ==
    IdCollides =>
       LET id == Sprintf_d(Size(prev) + 1)
       IN  /\ resp.Success = TRUE
           /\ resp.Message = MsgCreated
           /\ resp.User.Id = id
           /\ DOMAIN users = DOMAIN prev
           /\ Size(users) = Size(prev)
           /\ users[id].ID = id
           /\ users[id].Name = call.Name
           /\ users[id].Email = call.Email
           /\ users[id].Age = call.Age
           /\ users[id].UpdatedAt = now
           /\ users[id].CreatedAt \in {now - 1, now}
           /\ Renders(resp.User, users[id])
           /\ \A k \in DOMAIN prev \ {id} : users[k] = prev[k]

\* the seeded store, DeleteUser("1"), then CreateUser: the id "2" is taken again
CreateUserReusedId ==
    /\ IdCollides
    /\ deleted
    /\ resp.User.Id = "2"
    /\ Size(users) = 1
    /\ users["2"].Name # "Jane Smith"

\* s = a * b over the integers, for a >= 0 and b >= 1
ProductIs(a, b, s) == s >= 0 /\ s % b = 0 /\ s \div b = a

\* C22: for every page >= 1 and limit >= 1, the start offset of ListUsers is
\* the product (page-1)*limit over the integers and end is start + limit;
\* hence whenever that product is at least the total, the empty page is
\* returned.
ListOffsetsExact ==
    (Served("ListUsers") /\ call.Page >= 1 /\ call.Limit >= 1) =>
       /\ ProductIs(call.Page - 1, call.Limit, ListStart(call.Page, call.Limit))
       /\ ListEnd(call.Page, call.Limit)
             = ListStart(call.Page, call.Limit) + call.Limit
       /\ ProductAtLeast(call.Page - 1, call.Limit, Size(prev)) => EmptyPage

\* C22, for the pages and limits whose product fits an int32: there the
\* offsets are exact and the empty page is returned from the total on.
ListOffsetsExactInInt32 ==
    (/\ Served("ListUsers") /\ call.Page >= 1 /\ call.Limit >= 1
     /\ call.Page - 1 <= MaxInt32 \div call.Limit) =>
       /\ ProductIs(call.Page - 1, call.Limit, ListStart(call.Page, call.Limit))
       /\ ListEnd(call.Page, call.Limit)
             = ListStart(call.Page, call.Limit) + call.Limit
       /\ ProductAtLeast(call.Page - 1, call.Limit, Size(prev)) => EmptyPage

\* C23: no UpdateUser call changes a non-empty name or a non-empty email of
\* a live record to the empty string, nor its positive age to zero or below:
\* each of the three, true of the record before the call, is true after it,
\* and so stays true over any sequence of UpdateUser calls.
SentinelsKeepFields ==
    UpdatedLive =>
       /\ call.Id \in DOMAIN users
       /\ prev[call.Id].Name # "" => users[call.Id].Name # ""
       /\ prev[call.Id].Email # "" => users[call.Id].Email # ""
       /\ prev[call.Id].Age > 0 => users[call.Id].Age > 0
       /\ resp.Success = TRUE

\* an update with an empty name, an empty email and a negative age of a record
\* that has all three: it keeps them
UpdateUserWithSentinels ==
    /\ UpdatedLive
    /\ call.Name = "" /\ call.Email = "" /\ call.Age < 0
    /\ prev[call.Id].Name # "" /\ prev[call.Id].Email # "" /\ prev[call.Id].Age > 0
    /\ users[call.Id].Name = prev[call.Id].Name
    /\ users[call.Id].Email = prev[call.Id].Email
    /\ users[call.Id].Age = prev[call.Id].Age

\* C24: whenever ListUsers returns, in the empty-page branch or in the slice
\* branch, the total of the response is the number of records of the store at
\* the call, whatever the page and the limit.
ListUsersTotal ==
    (Served("ListUsers") /\ ~resp.panic) =>
       /\ resp.Total = Size(prev)
       /\ resp.Message \in {MsgNoPage, MsgListed}
       /\ users = prev

\* a page of one user out of a store of three, after a CreateUser
ListUsersTotalOfThree ==
    /\ Served("ListUsers")
    /\ ~resp.panic
    /\ resp.Message = MsgListed
    /\ Len(resp.Users) = 1
    /\ Size(prev) = 3
    /\ resp.Total = 3

----------------------------------------------------------------------------
(* UpdateUser against DeleteUser, without synchronisation *)

\* UpdateUser in p and DeleteUser in q, of the same id, have both returned
\* success
UpdatedAndDeleted(p, q) ==
    /\ Returned(p, "UpdateUser")
    /\ Returned(q, "DeleteUser")
    /\ procs[p].req.Id = procs[q].req.Id
    /\ procs[p].resp.Success
    /\ procs[q].resp.Success

\* C25: when UpdateUser(id) and DeleteUser(id) run unsynchronised on a live
\* id and both return success, the update is lost: the id is no key of the
\* store (GetUser of it finds no user), while UpdateUser has written its
\* fields to the record it had looked up, to which no key leads any more, and
\* has returned that record as updated.
RaceLosesUpdate ==
    \A p, q \in Procs :
       UpdatedAndDeleted(p, q) =>
          LET l   == procs[p]
              id  == l.req.Id
              rec == heap.orphans[l.ptr]
          IN  /\ id \in DOMAIN l.snap
              /\ id \notin DOMAIN users
              /\ GetUser(users, id).Success = FALSE
              /\ GetUser(users, id).Message = MsgNotFound
              /\ ~Attached(l.ptr)
              /\ l.ptr \in DOMAIN heap.orphans
              /\ l.resp.Message = MsgUpdated
              /\ l.resp.User = convertToProtoUser(rec)
              /\ l.resp.User.Id = id
              /\ l.req.Name # "" => rec.Name = l.req.Name
              /\ l.req.Email # "" => rec.Email = l.req.Email
              /\ l.req.Age > 0 => rec.Age = l.req.Age
              /\ rec.UpdatedAt = l.t

\* UpdateUser looked the record up before the delete and began to write after
\* it; both have returned success and the new name is in the response only
RaceLostUpdate ==
    /\ running
    /\ \E p, q \in Procs :
          /\ UpdatedAndDeleted(p, q)
          /\ procs[p].stale
          /\ procs[p].req.Name # ""
          /\ procs[p].resp.User.Name = procs[p].req.Name
          /\ procs[p].req.Id \notin DOMAIN users

====
